---------------------------- MODULE Spec2Model ----------------------------
(* vupdate (src/src/main.rs): fetch the two void-updates reports            *)
(* concurrently, parse each into an UpdateMap, list the installed packages  *)
(* with xbps-query, filter the all-updates map and print both maps.         *)
(*                                                                          *)
(* Strings are sequences of byte values (ASCII codes), so that Rust's       *)
(* byte-wise String ordering and the two regexes are computed, not assumed. *)
EXTENDS Integers, Sequences, FiniteSets, TLC

VARIABLES
    \* ---- main (src/src/main.rs:145-187)
    pc,                  \* position of main
    fut,                 \* per pipeline: position of its future inside tokio::join!
    join_result,         \* per pipeline: the Result the future returned
    completed,           \* pipelines in the order in which their futures completed
    maintainer_updates,  \* UpdateMap bound at line 150
    installed_updates,   \* UpdateMap bound at line 159, filtered at line 169
    installed_pkgs,      \* HashSet bound at line 168 (and the lister's accumulator)
    xq,                  \* what the xbps-query invocation did
    out,                 \* lines written to stdout so far
    panic_at,            \* where the process panicked ("none" while it has not)
    \* ---- response_to_hashmap, one loop iteration at a time (lines 126-141)
    body,                \* the report lines consumed so far
    pkg_updates,         \* the map being built
    pkg_before,          \* the map before the last consumed line
    \* ---- get_installed_packages, one output line at a time (lines 95-99)
    xq_line,             \* the last line of xbps-query output consumed
    pkgs_before,         \* the set before the last consumed line
    xq_n                 \* number of output lines consumed

vars == << pc, fut, join_result, completed, maintainer_updates, installed_updates,
           installed_pkgs, xq, out, panic_at, body, pkg_updates, pkg_before,
           xq_line, pkgs_before, xq_n >>

mainVars == << pc, fut, join_result, completed, maintainer_updates,
               installed_updates, xq, out, panic_at >>
parseVars == << body, pkg_updates, pkg_before >>
listerVars == << xq_line, pkgs_before, xq_n >>

--------------------------------------------------------------------------
(* Bounds                                                                  *)

\* report lines per body in the parser specification
MaxParseLines == 3
\* report lines per fetched body in the main specification
MaxBodyLines == 3
\* lines of xbps-query output
MaxXqLines == 2
\* length of the exhaustively enumerated xbps-query output lines
MaxLineLen == 4

--------------------------------------------------------------------------
(* Strings                                                                 *)

\* '-' as it appears in the lister's regex
HYPHEN == 45

\* the characters \s matches and \S does not (ASCII part)
WhiteSpace == {9, 10, 11, 12, 13, 32}

IsSpace(c) == c \in WhiteSpace

SetMin(S) == CHOOSE x \in S : \A y \in S : x <= y

SetMax(S) == CHOOSE x \in S : \A y \in S : y <= x

\* Rust's `<` on String: byte-wise lexicographic order
StrLess(s, t) ==
    \E i \in 1..Len(t) :
        /\ i <= Len(s) + 1
        /\ \A j \in 1..(i - 1) : s[j] = t[j]
        /\ (i = Len(s) + 1 \/ s[i] < t[i])

\* Rust's `<=` on String
StrLeq(s, t) == s = t \/ StrLess(s, t)

RECURSIVE JoinWith(_, _)
\* tokens joined by a separator
JoinWith(tokens, sep) ==
    IF tokens = << >> THEN << >>
    ELSE IF Len(tokens) = 1 THEN tokens[1]
    ELSE tokens[1] \o sep \o JoinWith(Tail(tokens), sep)

\* index of the last character of the maximal \S run that starts at i
\* (i - 1 when l[i] is whitespace or i is past the end)
RECURSIVE RunEnd(_, _)
RunEnd(l, i) ==
    IF i > Len(l) \/ IsSpace(l[i]) THEN i - 1 ELSE RunEnd(l, i + 1)

\* index of the first non-whitespace character at or after i (past the end
\* of l if there is none)
RECURSIVE SkipSpace(_, _)
SkipSpace(l, i) ==
    IF i > Len(l) \/ ~IsSpace(l[i]) THEN i ELSE SkipSpace(l, i + 1)

--------------------------------------------------------------------------
(* Report Parser: response_to_hashmap                                      *)

EmptyMap == [k \in {} |-> k]

PackageUpdate(cur, new) == [current_version |-> cur, new_version |-> new]

\* HashMap::insert: add or replace the entry of key k
MapInsert(m, k, v) == [x \in (DOMAIN m) \cup {k} |-> IF x = k THEN v ELSE m[x]]

\* The positions of a match of (\S+)\s+(\S+)\s+->\s+(\S+) that starts at s.
\* Every group but the last is followed by \s+, so it ends where its run
\* ends; the last group is greedy.
ReAt(l, s) ==
    LET e1 == RunEnd(l, s)
        b2 == SkipSpace(l, e1 + 1)
        e2 == RunEnd(l, b2)
        a  == SkipSpace(l, e2 + 1)
        b3 == SkipSpace(l, a + 2)
        e3 == RunEnd(l, b3)
    IN  [ok |-> /\ e1 >= s
                /\ b2 <= Len(l)
                /\ a + 1 <= Len(l)
                /\ l[a] = 45 /\ l[a + 1] = 62
                /\ b3 > a + 2
                /\ b3 <= Len(l),
         s1 |-> s, e1 |-> e1, s2 |-> b2, e2 |-> e2, s3 |-> b3, e3 |-> e3]

\* the leftmost position at or after s where a match starts (past the end of
\* l if there is none)
RECURSIVE ReFirst(_, _)
ReFirst(l, s) ==
    IF s > Len(l) \/ ReAt(l, s).ok THEN s ELSE ReFirst(l, s + 1)

\* RE.captures(l): the leftmost match, or none
ReCaptures(l) ==
    LET first == ReFirst(l, 1)
    IN  IF first > Len(l) THEN [matched |-> FALSE, g1 |-> << >>, g2 |-> << >>, g3 |-> << >>]
        ELSE LET m == ReAt(l, first)
             IN  [matched |-> TRUE,
                  g1 |-> SubSeq(l, m.s1, m.e1),
                  g2 |-> SubSeq(l, m.s2, m.e2),
                  g3 |-> SubSeq(l, m.s3, m.e3)]

\* line 134: the condition under which insert is set to false
KeepExistingStrict(pkg_update, existing_pkg_update) ==
    StrLess(pkg_update.new_version, existing_pkg_update.new_version)

KeepExistingReversed(pkg_update, existing_pkg_update) ==
    StrLeq(existing_pkg_update.new_version, pkg_update.new_version)

KeepExisting(pkg_update, existing_pkg_update) ==
    StrLeq(pkg_update.new_version, existing_pkg_update.new_version)

\* one iteration of the loop of lines 126-141 (a line that does not match
\* is dropped by filter_map)
ParseLine(m, l) ==
    LET cap == ReCaptures(l)
        pkg_name == cap.g1
        pkg_update == PackageUpdate(cap.g2, cap.g3)
        insert == ~(pkg_name \in DOMAIN m /\ KeepExisting(pkg_update, m[pkg_name]))
    IN  IF cap.matched /\ insert THEN MapInsert(m, pkg_name, pkg_update) ELSE m

RECURSIVE ParseFrom(_, _)
ParseFrom(m, lines) ==
    IF lines = << >> THEN m ELSE ParseFrom(ParseLine(m, Head(lines)), Tail(lines))

\* response_to_hashmap(body), body given as its lines()
response_to_hashmap(lines) == ParseFrom(EmptyMap, lines)

\* ---- report texts the parser is run on
Sp == << 32 >>
Arrow == << 45, 62 >>
foo == << 102, 111, 111 >>
bar == << 98, 97, 114 >>
v1_0 == << 49, 46, 48 >>
v1_1 == << 49, 46, 49 >>
v1_5 == << 49, 46, 53 >>
v2_0 == << 50, 46, 48 >>
v10_0 == << 49, 48, 46, 48 >>
url == << 104, 58, 47, 47, 117 >>

\* `name cur -> new`
UpdateLine(name, cur, new) == JoinWith(<< name, cur, Arrow, new >>, Sp)

ParseLines ==
    {UpdateLine(foo, c, n) : c \in {v1_0, v1_1}, n \in {v2_0, v10_0, v1_5}}
    \cup {UpdateLine(bar, v1_0, n) : n \in {v2_0, v10_0}}
    \cup { \* the documented shape: runs of blanks, a tab, a trailing URL
           foo \o << 32, 32 >> \o v1_0 \o << 9 >> \o Arrow \o Sp \o v2_0
               \o << 32, 32, 32, 32 >> \o url,
           \* a leading token before the three-token pattern
           JoinWith(<< url, bar, v1_1, Arrow, v1_5 >>, Sp),
           \* lines that do not match
           << >>,
           JoinWith(<< foo, v1_0, v2_0 >>, Sp),
           JoinWith(<< foo, v1_0, Arrow >>, Sp),
           JoinWith(<< foo, Arrow, v2_0 >>, Sp),
           foo \o Sp \o v1_0 \o Sp \o Arrow \o v2_0 }

--------------------------------------------------------------------------
(* Installed-Package Lister: get_installed_packages                        *)

\* Where group 1 of (\S+)-\S+? may end for a match that starts at s: inside
\* the run of s, followed by '-' and by one more non-whitespace character.
NameEnds(l, s) ==
    {e \in s..RunEnd(l, s) : e + 2 <= Len(l) /\ l[e + 1] = HYPHEN /\ ~IsSpace(l[e + 2])}

\* the leftmost position at or after s where a match of (\S+)-\S+? starts
\* (past the end of l if there is none)
RECURSIVE NameFirst(_, _)
NameFirst(l, s) ==
    IF s > Len(l) \/ NameEnds(l, s) # {} THEN s ELSE NameFirst(l, s + 1)

\* a lister that cuts the token at its first hyphen
LineNameFirstHyphen(l) ==
    LET s == NameFirst(l, 1)
    IN  IF s > Len(l) THEN {} ELSE {SubSeq(l, s, SetMin(NameEnds(l, s)))}

\* re.captures(l) mapped to &c[1]: the leftmost match, group 1 greedy.
\* The set holds the captured name, or nothing when the line has no match.
LineName(l) ==
    LET s == NameFirst(l, 1)
    IN  IF s > Len(l) THEN {} ELSE {SubSeq(l, s, SetMax(NameEnds(l, s)))}

\* lines 95-99 on the decoded output, given as its lines()
CollectNames(lines) == UNION {LineName(lines[i]) : i \in 1..Len(lines)}

\* ---- xbps-query output lines the lister is run on
XqAlphabet == {97, HYPHEN, 32}

RECURSIVE StringsOfLen(_)
StringsOfLen(n) ==
    IF n = 0 THEN {<< >>}
    ELSE {Append(s, c) : s \in StringsOfLen(n - 1), c \in XqAlphabet}

py3 == << 112, 121, 51 >>
v3_1_1 == << 51, 46, 49, 95, 49 >>

XqLines ==
    UNION {StringsOfLen(n) : n \in 0..MaxLineLen}
    \cup { py3 \o << HYPHEN >> \o v3_1_1,                       \* py3-3.1_1
           foo \o << HYPHEN >> \o bar \o << HYPHEN >> \o v1_0,  \* foo-bar-1.0
           foo \o << HYPHEN >> \o v1_0,                         \* foo-1.0
           foo \o << HYPHEN >> \o v2_0,                         \* foo-2.0
           foo }

--------------------------------------------------------------------------
(* Update Reconciler: main, and Display for UpdateMap                     *)

Pipelines == {"get_maintainer_updates", "get_all_updates"}

\* the Result a pipeline returns (lines 104-116)
Err == [ok |-> FALSE, map |-> EmptyMap]

Ok(m) == [ok |-> TRUE, map |-> m]

\* a line of stdout: a red warning, an underlined heading, an entry of a
\* map, or the empty line println! adds after the maintainer map
Warning(msg) == [kind |-> "warning", msg |-> msg, text |-> << >>]

Heading(msg) == [kind |-> "heading", msg |-> msg, text |-> << >>]

Entry(text) == [kind |-> "entry", msg |-> "", text |-> text]

EmptyLine == [kind |-> "empty", msg |-> "", text |-> << >>]

MaintainerWarning == Warning("Could not fetch updates_kartik.ynwa@gmail.com.txt")

AllUpdatesWarning == Warning("Could not fetch void-updates.txt")

MaintainerHeading == Heading("Maintainer updates:")

InstalledHeading == Heading("Updates for installed packages:")

\* "{}\t{} -> {}" (line 69)
FormatEntry(key, update) ==
    key \o << 9 >> \o update.current_version \o << 32, 45, 62, 32 >> \o update.new_version

\* the keys from the greatest down
RECURSIVE SortedDescending(_)
SortedDescending(S) ==
    IF S = {} THEN << >>
    ELSE LET k == CHOOSE x \in S : \A y \in S : StrLeq(y, x)
         IN  << k >> \o SortedDescending(S \ {k})

\* keys.sort() (line 64): ascending byte-wise order
RECURSIVE SortedKeys(_)
SortedKeys(S) ==
    IF S = {} THEN << >>
    ELSE LET k == CHOOSE x \in S : \A y \in S : StrLeq(x, y)
         IN  << k >> \o SortedKeys(S \ {k})

\* <UpdateMap as Display>::fmt: one line per entry, keys sorted
Display(m) ==
    LET keys == SortedKeys(DOMAIN m)
    IN  [i \in 1..Len(keys) |-> Entry(FormatEntry(keys[i], m[keys[i]]))]

\* a retain that forgets the maintainer's packages
RetainInstalledOnly(m, pkgs, maintainer) ==
    [k \in {x \in DOMAIN m : x \in pkgs} |-> m[k]]

\* HashMap::retain with the closure of line 171
Retain(m, pkgs, maintainer) ==
    [k \in {x \in DOMAIN m : x \in pkgs /\ x \notin DOMAIN maintainer} |-> m[k]]

\* ---- what the two servers and xbps-query may answer
pkg_a == << 97 >>
pkg_ab == << 97, 98 >>
pkg_b == << 98 >>
v1 == << 49 >>
v2 == << 50 >>
v10 == << 49, 48 >>

ReportLines ==
    { UpdateLine(pkg_a, v1, v2), UpdateLine(pkg_a, v1, v10),
      UpdateLine(pkg_ab, v1, v2), UpdateLine(pkg_b, v1, v2),
      JoinWith(<< pkg_a, pkg_b >>, Sp) }

Bodies == UNION {[1..n -> ReportLines] : n \in 0..MaxBodyLines}

XqOutputLines ==
    { pkg_a \o << HYPHEN >> \o v1, pkg_ab \o << HYPHEN >> \o v1,
      pkg_b \o << HYPHEN >> \o v2, pkg_b }

XqOutputs == UNION {[1..n -> XqOutputLines] : n \in 0..MaxXqLines}

ExitStatuses == {0, 1}

--------------------------------------------------------------------------
(* Initial states                                                          *)

\* main before the join is polled, an empty body consumed by the parser, no
\* output line consumed by the lister
Init ==
    /\ pc = "join"
    /\ fut = [p \in Pipelines |-> "get"]
    /\ join_result = [p \in Pipelines |-> Err]
    /\ completed = << >>
    /\ maintainer_updates = EmptyMap
    /\ installed_updates = EmptyMap
    /\ installed_pkgs = {}
    /\ xq = [kind |-> "none", status |-> 0]
    /\ out = << >>
    /\ panic_at = "none"
    /\ body = << >>
    /\ pkg_updates = EmptyMap
    /\ pkg_before = EmptyMap
    /\ xq_line = << >>
    /\ pkgs_before = {}
    /\ xq_n = 0

--------------------------------------------------------------------------
(* response_to_hashmap, line by line                                       *)

\* the loop of response_to_hashmap consumes the next line of the body
ParseStep(l) ==
    /\ Len(body) < MaxParseLines
    /\ body' = Append(body, l)
    /\ pkg_before' = pkg_updates
    /\ pkg_updates' = ParseLine(pkg_updates, l)
    /\ UNCHANGED << mainVars, listerVars, installed_pkgs >>

NextParse == \E l \in ParseLines : ParseStep(l)

SpecParse == Init /\ [][NextParse]_vars

--------------------------------------------------------------------------
(* Properties of the parser, checked under SpecParse                       *)

\* the captures of the consumed lines that match
BodyCaptures == {ReCaptures(body[i]) : i \in {j \in 1..Len(body) : ReCaptures(body[j]).matched}}

\* the new_version strings of the consumed lines that name package n
NewVersionsOf(n) == {c.g3 : c \in {d \in BodyCaptures : d.g1 = n}}

\* C4: the map has one entry per package named by a matching line, and the
\* new_version it retains for a package is the byte-wise lexicographic
\* maximum of the new_version strings of all matching lines naming that
\* package. The statement does not mention the order of the lines, and the
\* bodies range over every order of the same lines.
C4_LexMaxRetained ==
    /\ pkg_updates = response_to_hashmap(body)
    /\ DOMAIN pkg_updates = {c.g1 : c \in BodyCaptures}
    /\ \A n \in DOMAIN pkg_updates :
           /\ pkg_updates[n].new_version \in NewVersionsOf(n)
           /\ \A v \in NewVersionsOf(n) : StrLeq(v, pkg_updates[n].new_version)

\* `foo 1.0 -> 2.0` and `foo 1.0 -> 10.0`, in either order, with "2.0" retained
C4_Witness ==
    /\ \E i, j \in 1..Len(body) :
           /\ body[i] = UpdateLine(foo, v1_0, v2_0)
           /\ body[j] = UpdateLine(foo, v1_0, v10_0)
           /\ j < i
    /\ pkg_updates[foo].new_version = v2_0

\* the last consumed line matched and its package already had an entry
MetExisting ==
    /\ Len(body) > 0
    /\ ReCaptures(body[Len(body)]).matched
    /\ ReCaptures(body[Len(body)]).g1 \in DOMAIN pkg_before

LastName == ReCaptures(body[Len(body)]).g1

LastUpdate ==
    PackageUpdate(ReCaptures(body[Len(body)]).g2, ReCaptures(body[Len(body)]).g3)

\* C5 as stated: the later line's entry replaces the existing one exactly
\* when its new_version is greater than or equal to the existing one.
C5_ReplacesWhenGreaterOrEqual ==
    MetExisting =>
        IF StrLeq(pkg_before[LastName].new_version, LastUpdate.new_version)
        THEN pkg_updates[LastName] = LastUpdate
        ELSE pkg_updates[LastName] = pkg_before[LastName]

\* C5 amended: the later line's entry replaces the existing one exactly when
\* its new_version is strictly greater; on equal new_version strings the
\* existing entry, with its current_version, is retained.
C5_ReplacesWhenStrictlyGreater ==
    MetExisting =>
        /\ IF StrLess(pkg_before[LastName].new_version, LastUpdate.new_version)
           THEN pkg_updates[LastName] = LastUpdate
           ELSE pkg_updates[LastName] = pkg_before[LastName]
        /\ \A n \in DOMAIN pkg_before \ {LastName} : pkg_updates[n] = pkg_before[n]

\* equal new_version, different current_version: the earlier entry stays
C5_Witness ==
    /\ MetExisting
    /\ pkg_before[LastName].new_version = LastUpdate.new_version
    /\ pkg_before[LastName].current_version # LastUpdate.current_version
    /\ pkg_updates[LastName].current_version = pkg_before[LastName].current_version

--------------------------------------------------------------------------
\* the iterator chain of lines 95-99 consumes the next output line
ListerStep(l) ==
    /\ xq_n < MaxXqLines
    /\ xq_n' = xq_n + 1
    /\ xq_line' = l
    /\ pkgs_before' = installed_pkgs
    /\ installed_pkgs' = installed_pkgs \cup LineName(l)
    /\ UNCHANGED << mainVars, parseVars >>

NextLister == \E l \in XqLines : ListerStep(l)

SpecLister == Init /\ [][NextLister]_vars

--------------------------------------------------------------------------
(* Properties of the lister, checked under SpecLister                      *)

HyphensOf(l) == {i \in 1..Len(l) : l[i] = HYPHEN}

\* the line is one `name-version` token: no whitespace, and a final hyphen
\* with a non-empty name before it and a non-empty version after it
IsNameVersion(l) ==
    /\ \A i \in 1..Len(l) : ~IsSpace(l[i])
    /\ HyphensOf(l) # {}
    /\ 1 < SetMax(HyphensOf(l))
    /\ SetMax(HyphensOf(l)) < Len(l)

BeforeFinalHyphen(l) == SubSeq(l, 1, SetMax(HyphensOf(l)) - 1)

\* C9: a line that is a name-version token adds exactly the part before its
\* final hyphen, a line with no hyphen adds nothing, and the names form a
\* set (a name already present is not added again).
C9_NameBeforeFinalHyphen ==
    xq_n > 0 =>
        /\ IsNameVersion(xq_line) =>
               installed_pkgs = pkgs_before \cup {BeforeFinalHyphen(xq_line)}
        /\ HyphensOf(xq_line) = {} => installed_pkgs = pkgs_before
        /\ Cardinality(installed_pkgs) <= xq_n

\* a second line for a name that has hyphens in it and is already in the set
C9_Witness ==
    /\ xq_n = 2
    /\ IsNameVersion(xq_line)
    /\ HyphensOf(BeforeFinalHyphen(xq_line)) # {}
    /\ BeforeFinalHyphen(xq_line) \in pkgs_before
    /\ installed_pkgs = pkgs_before

--------------------------------------------------------------------------
(* main                                                                    *)

\* a future of the join completes with result r
Complete(p, r) ==
    /\ fut' = [fut EXCEPT ![p] = "ready"]
    /\ join_result' = [join_result EXCEPT ![p] = r]
    /\ completed' = Append(completed, p)

\* line 79: reqwest::get(url).await returns a response
GetOk(p) ==
    /\ pc = "join"
    /\ fut[p] = "get"
    /\ fut' = [fut EXCEPT ![p] = "text"]
    /\ UNCHANGED << pc, join_result, completed, maintainer_updates, installed_updates,
                    installed_pkgs, xq, out, panic_at, parseVars, listerVars >>

\* a failed fetch that writes its warning as soon as it fails
GetErrWarnsAtOnce(p) ==
    /\ pc = "join"
    /\ fut[p] = "get"
    /\ Complete(p, Err)
    /\ out' = Append(out, IF p = "get_maintainer_updates"
                          THEN MaintainerWarning ELSE AllUpdatesWarning)
    /\ UNCHANGED << pc, maintainer_updates, installed_updates,
                    installed_pkgs, xq, panic_at, parseVars, listerVars >>

\* line 79: reqwest::get(url).await fails; `?` here and at line 106 / 114
\* makes the pipeline return Err
GetErr(p) ==
    /\ pc = "join"
    /\ fut[p] = "get"
    /\ Complete(p, Err)
    /\ UNCHANGED << pc, maintainer_updates, installed_updates,
                    installed_pkgs, xq, out, panic_at, parseVars, listerVars >>

\* line 80: response.text().await returns the body; lines 107 / 115 parse it
TextOk(p) ==
    /\ pc = "join"
    /\ fut[p] = "text"
    /\ \E b \in Bodies : Complete(p, Ok(response_to_hashmap(b)))
    /\ UNCHANGED << pc, maintainer_updates, installed_updates,
                    installed_pkgs, xq, out, panic_at, parseVars, listerVars >>

\* line 80: response.text().await fails and unwrap() panics
TextErr(p) ==
    /\ pc = "join"
    /\ fut[p] = "text"
    /\ fut' = [fut EXCEPT ![p] = "text_failed"]
    /\ pc' = "panicked"
    /\ panic_at' = "text"
    /\ UNCHANGED << join_result, completed, maintainer_updates, installed_updates,
                    installed_pkgs, xq, out, parseVars, listerVars >>

\* a join that returns as soon as one future is ready
JoinReadyAny == \E p \in Pipelines : fut[p] = "ready"

\* tokio::join! (line 148) returns when both futures have completed
JoinReady == \A p \in Pipelines : fut[p] = "ready"

JoinReturn ==
    /\ pc = "join"
    /\ JoinReady
    /\ pc' = "match_maintainer"
    /\ UNCHANGED << fut, join_result, completed, maintainer_updates, installed_updates,
                    installed_pkgs, xq, out, panic_at, parseVars, listerVars >>

\* lines 150-157
MatchMaintainer ==
    /\ pc = "match_maintainer"
    /\ IF join_result["get_maintainer_updates"].ok
       THEN /\ maintainer_updates' = join_result["get_maintainer_updates"].map
            /\ out' = out
       ELSE /\ maintainer_updates' = EmptyMap
            /\ out' = Append(out, MaintainerWarning)
    /\ pc' = "match_installed"
    /\ UNCHANGED << fut, join_result, completed, installed_updates,
                    installed_pkgs, xq, panic_at, parseVars, listerVars >>

\* lines 159-165
MatchInstalled ==
    /\ pc = "match_installed"
    /\ IF join_result["get_all_updates"].ok
       THEN /\ installed_updates' = join_result["get_all_updates"].map
            /\ out' = out
       ELSE /\ installed_updates' = EmptyMap
            /\ out' = Append(out, AllUpdatesWarning)
    /\ pc' = "get_installed_packages"
    /\ UNCHANGED << fut, join_result, completed, maintainer_updates,
                    installed_pkgs, xq, panic_at, parseVars, listerVars >>

\* a lister that answers a failed spawn with the empty set
XqSpawnFailsIgnored ==
    /\ pc = "get_installed_packages"
    /\ xq' = [kind |-> "spawn_failed", status |-> 0]
    /\ installed_pkgs' = {}
    /\ pc' = "retain"
    /\ UNCHANGED << fut, join_result, completed, maintainer_updates, installed_updates,
                    out, panic_at, parseVars, listerVars >>

\* lines 87-90: the command cannot be spawned and expect() panics
XqSpawnFails ==
    /\ pc = "get_installed_packages"
    /\ xq' = [kind |-> "spawn_failed", status |-> 0]
    /\ pc' = "panicked"
    /\ panic_at' = "spawn"
    /\ UNCHANGED << fut, join_result, completed, maintainer_updates, installed_updates,
                    installed_pkgs, out, parseVars, listerVars >>

\* line 91: the command ran, its stdout is not UTF-8 and unwrap() panics
XqNotUtf8 ==
    /\ pc = "get_installed_packages"
    /\ \E st \in ExitStatuses : xq' = [kind |-> "not_utf8", status |-> st]
    /\ pc' = "panicked"
    /\ panic_at' = "from_utf8"
    /\ UNCHANGED << fut, join_result, completed, maintainer_updates, installed_updates,
                    installed_pkgs, out, parseVars, listerVars >>

\* lines 87-99: the command ran (its exit status is not looked at) and its
\* stdout is text
XqOk ==
    /\ pc = "get_installed_packages"
    /\ \E st \in ExitStatuses, stdout \in XqOutputs :
           /\ xq' = [kind |-> "ok", status |-> st]
           /\ installed_pkgs' = CollectNames(stdout)
    /\ pc' = "retain"
    /\ UNCHANGED << fut, join_result, completed, maintainer_updates, installed_updates,
                    out, panic_at, parseVars, listerVars >>

\* lines 169-171
RetainStep ==
    /\ pc = "retain"
    /\ installed_updates' = Retain(installed_updates, installed_pkgs, maintainer_updates)
    /\ pc' = "print_maintainer"
    /\ UNCHANGED << fut, join_result, completed, maintainer_updates,
                    installed_pkgs, xq, out, panic_at, parseVars, listerVars >>

\* lines 174-177: println! of the map adds an empty line after its entries
PrintMaintainer ==
    /\ pc = "print_maintainer"
    /\ out' = IF DOMAIN maintainer_updates # {}
              THEN out \o << MaintainerHeading >> \o Display(maintainer_updates)
                       \o << EmptyLine >>
              ELSE out
    /\ pc' = "print_installed"
    /\ UNCHANGED << fut, join_result, completed, maintainer_updates, installed_updates,
                    installed_pkgs, xq, panic_at, parseVars, listerVars >>

\* lines 180-186, then main returns
PrintInstalled ==
    /\ pc = "print_installed"
    /\ out' = IF DOMAIN installed_updates # {}
              THEN out \o << InstalledHeading >> \o Display(installed_updates)
              ELSE out
    /\ pc' = "done"
    /\ UNCHANGED << fut, join_result, completed, maintainer_updates, installed_updates,
                    installed_pkgs, xq, panic_at, parseVars, listerVars >>

Next ==
    \/ \E p \in Pipelines : GetOk(p)
    \/ \E p \in Pipelines : GetErr(p)
    \/ \E p \in Pipelines : TextOk(p)
    \/ \E p \in Pipelines : TextErr(p)
    \/ JoinReturn
    \/ MatchMaintainer
    \/ MatchInstalled
    \/ XqSpawnFails
    \/ XqNotUtf8
    \/ XqOk
    \/ RetainStep
    \/ PrintMaintainer
    \/ PrintInstalled

Spec == Init /\ [][Next]_vars

--------------------------------------------------------------------------
(* Properties of main, checked under Spec                                  *)

gm == "get_maintainer_updates"

ga == "get_all_updates"

BothReady == \A p \in Pipelines : fut[p] = "ready"

\* the fetch of pipeline p failed: no connection, or no readable body
FetchFailed(p) == fut[p] = "text_failed" \/ (fut[p] = "ready" /\ ~join_result[p].ok)

Filtered == pc \in {"print_maintainer", "print_installed", "done"}

HeadingLines(h) == {i \in 1..Len(out) : out[i] = h}

EntryLines == {i \in 1..Len(out) : out[i].kind = "entry"}

WarningLines == {i \in 1..Len(out) : out[i].kind = "warning"}

\* the name a printed entry starts with: the text before its tab
EntryName(text) == SubSeq(text, 1, SetMin({j \in 1..Len(text) : text[j] = 9}) - 1)

\* the heading a printed entry stands under
SectionOf(i) == out[SetMax({j \in 1..i : out[j].kind = "heading"})]

PrintedUnder(h) == {EntryName(out[i].text) : i \in {j \in EntryLines : SectionOf(j) = h}}

\* C1: after the filter step the installed-updates map holds exactly the
\* entries of the parsed all-updates map whose name is installed and is not
\* a key of the maintainer map, version pairs unchanged; no name is printed
\* both under the maintainer heading and under the installed heading.
C1_FilterKeepsInstalledUnmaintained ==
    Filtered =>
        /\ DOMAIN installed_updates =
               {k \in DOMAIN join_result[ga].map :
                    k \in installed_pkgs /\ k \notin DOMAIN maintainer_updates}
        /\ \A k \in DOMAIN installed_updates :
               installed_updates[k] = join_result[ga].map[k]
        /\ PrintedUnder(MaintainerHeading) \cap PrintedUnder(InstalledHeading) = {}

\* the all-updates map has a maintained entry, an entry that is not
\* installed and an entry that is kept, and both sections are printed
C1_Witness ==
    /\ pc = "done"
    /\ \E k \in DOMAIN join_result[ga].map :
           k \in DOMAIN maintainer_updates /\ k \in installed_pkgs
    /\ \E k \in DOMAIN join_result[ga].map :
           k \notin DOMAIN maintainer_updates /\ k \notin installed_pkgs
    /\ DOMAIN installed_updates # {}
    /\ PrintedUnder(MaintainerHeading) # {}
    /\ PrintedUnder(InstalledHeading) # {}

\* C2: a failed fetch never aborts the run: the process does not panic in a
\* fetch, and a run with a failed fetch that ends has printed the warning of
\* that report, has put the empty map in its place and has used the other
\* pipeline's parsed map in full.
C2_FetchFailureNeverAborts ==
    /\ \A p \in Pipelines : FetchFailed(p) => panic_at # "text"
    /\ (pc = "done" /\ FetchFailed(gm)) =>
           /\ MaintainerWarning \in {out[i] : i \in 1..Len(out)}
           /\ maintainer_updates = EmptyMap
    /\ (pc = "done" /\ FetchFailed(ga)) =>
           /\ AllUpdatesWarning \in {out[i] : i \in 1..Len(out)}
           /\ installed_updates = EmptyMap
    /\ (pc = "done" /\ ~FetchFailed(gm)) =>
           maintainer_updates = join_result[gm].map

\* C3: a fetch whose body cannot be read is recovered like a failed
\* connection: the process does not terminate on it.
C3_BodyFailureRecovered ==
    \A p \in Pipelines : fut[p] = "text_failed" => pc # "panicked"

\* C6: nothing downstream of the join happens before both pipelines have
\* completed: no warning or section is printed, xbps-query is not run and
\* main is not past the join while a fetch is still in flight.
C6_JoinBeforeDownstream ==
    (\/ out # << >>
     \/ xq.kind # "none"
     \/ pc \notin {"join", "panicked"}
     \/ panic_at \in {"spawn", "from_utf8"})
        => BothReady

\* the all-updates fetch completed first, and main went on to print
C6_Witness ==
    /\ pc = "done"
    /\ completed = << ga, gm >>
    /\ xq.kind = "ok"
    /\ WarningLines # {}
    /\ EntryLines # {}

\* C7: when xbps-query cannot be spawned or its output is not text, the
\* process terminates there and no heading and no entry is printed; a
\* command that ran and wrote text is not a failure whatever its exit status.
C7_QueryFailureIsFatal ==
    /\ xq.kind \in {"spawn_failed", "not_utf8"} =>
           /\ pc = "panicked"
           /\ \A i \in 1..Len(out) : out[i].kind \notin {"heading", "entry"}
    /\ xq.kind = "ok" => pc # "panicked"

\* the maintainer fetch succeeded with a non-empty map and the spawn failed
C7_Witness ==
    /\ xq.kind = "spawn_failed"
    /\ pc = "panicked"
    /\ join_result[gm].ok
    /\ DOMAIN maintainer_updates # {}

\* the number of keys of m below k, plus one
Rank(k, m) == 1 + Cardinality({j \in DOMAIN m : StrLess(j, k)})

\* the map m is printed right below line h: its i-th line is the entry of
\* the key of rank i, and the line after the last one is no entry
SectionBelow(h, m) ==
    /\ h + Cardinality(DOMAIN m) <= Len(out)
    /\ \A i \in 1..Cardinality(DOMAIN m) :
           \E k \in DOMAIN m :
               /\ Rank(k, m) = i
               /\ out[h + i] = Entry(FormatEntry(k, m[k]))
    /\ h + Cardinality(DOMAIN m) < Len(out) =>
           out[h + Cardinality(DOMAIN m) + 1].kind # "entry"

\* C8: a heading is printed iff its map is non-empty, the maintainer section
\* comes first, and a printed section lists each entry of its map once, as
\* name<TAB>current -> new, in strictly ascending byte-wise order of the
\* names; with both maps empty no heading and no entry is printed.
C8_SectionsSortedAndComplete ==
    pc = "done" =>
        /\ Cardinality(HeadingLines(MaintainerHeading)) =
               (IF DOMAIN maintainer_updates # {} THEN 1 ELSE 0)
        /\ Cardinality(HeadingLines(InstalledHeading)) =
               (IF DOMAIN installed_updates # {} THEN 1 ELSE 0)
        /\ \A i \in HeadingLines(MaintainerHeading), j \in HeadingLines(InstalledHeading) :
               i < j
        /\ \A i \in HeadingLines(MaintainerHeading) : SectionBelow(i, maintainer_updates)
        /\ \A i \in HeadingLines(InstalledHeading) : SectionBelow(i, installed_updates)
        /\ Cardinality(EntryLines) =
               Cardinality(DOMAIN maintainer_updates) + Cardinality(DOMAIN installed_updates)
        /\ \A i \in EntryLines : \E j \in 1..(i - 1) : out[j].kind = "heading"

\* both sections are printed, and the maintainer section has several entries
C8_Witness ==
    /\ pc = "done"
    /\ Cardinality(DOMAIN maintainer_updates) >= 2
    /\ DOMAIN installed_updates # {}
    /\ HeadingLines(MaintainerHeading) # {}
    /\ HeadingLines(InstalledHeading) # {}

\* the lines a run prints, from the results of the two fetches and the set
\* of installed packages alone
ExpectedOut ==
    LET m == join_result[gm].map
        a == Retain(join_result[ga].map, installed_pkgs, m)
    IN  (IF join_result[gm].ok THEN << >> ELSE << MaintainerWarning >>)
        \o (IF join_result[ga].ok THEN << >> ELSE << AllUpdatesWarning >>)
        \o (IF DOMAIN m # {}
            THEN << MaintainerHeading >> \o Display(m) \o << EmptyLine >> ELSE << >>)
        \o (IF DOMAIN a # {} THEN << InstalledHeading >> \o Display(a) ELSE << >>)

\* C10: what is printed depends on the outcomes of the two fetches and of
\* xbps-query only, not on the order in which the fetches completed; when
\* both fetches fail the maintainer warning is printed first.
C10_OutputIndependentOfCompletionOrder ==
    /\ pc = "done" => out = ExpectedOut
    /\ pc = "join" => out = << >>
    /\ panic_at = "text" => out = << >>
    /\ (pc \notin {"join", "match_maintainer", "match_installed"}
            /\ panic_at # "text" /\ ~join_result[gm].ok /\ ~join_result[ga].ok) =>
           /\ Len(out) >= 2
           /\ out[1] = MaintainerWarning
           /\ out[2] = AllUpdatesWarning
           /\ Cardinality(WarningLines) = 2

\* both fetches failed, the all-updates fetch first
C10_Witness ==
    /\ pc = "done"
    /\ completed = << ga, gm >>
    /\ ~join_result[gm].ok
    /\ ~join_result[ga].ok
    /\ out = << MaintainerWarning, AllUpdatesWarning >>

==========================================================================
